---- MODULE Spec2Model ----
(***************************************************************************)
(* Model of src/App.tsx: a right-triangle calculator (App) and its diagram *)
(* (TriangleVisualizer).                                                   *)
(*                                                                         *)
(* The program computes with the JavaScript `number` type, IEEE-754 binary *)
(* floating point with round-to-nearest-even.  The model keeps that        *)
(* arithmetic (rounding, overflow to Infinity, underflow, subnormals, NaN, *)
(* signed zero) but in a narrower format, so that the integers TLC can     *)
(* represent suffice: Precision significand bits and exponents             *)
(* Emin..Emax.  Precision = 11, Emax = 15 is IEEE binary16; the program's  *)
(* binary64 is Precision = 53, Emax = 1023.                                *)
(*                                                                         *)
(* Strings are sequences of one-character strings.                         *)
(***************************************************************************)
EXTENDS Integers, Sequences, FiniteSets

\* ----------------------------------------------------------------------
\* The floating-point format
\* ----------------------------------------------------------------------

Precision == 11
Emax == 15
Emin == 1 - Emax

RECURSIVE Pow(_, _)
Pow(b, n) == IF n <= 0 THEN 1 ELSE b * Pow(b, n - 1)

\* exponent of the least significant bit of the subnormals and of the
\* largest finite numbers: a finite number is m * 2^e, 0 <= m < 2^Precision
Qexp == Emin - (Precision - 1)
Eexp == Emax - (Precision - 1)
TwoP == Pow(2, Precision)
HalfP == Pow(2, Precision - 1)

\* A number is NaN, +-Infinity or (-1)^s * m * 2^e in canonical form:
\* HalfP <= m < TwoP (normal), or e = Qexp and m < HalfP (subnormal, zero).
\* null (hypotenuse: number | null) has the same shape.
NaN == [k |-> "nan", s |-> 0, m |-> 0, e |-> 0]
Inf(sg) == [k |-> "inf", s |-> sg, m |-> 0, e |-> 0]
Fin(sg, mm, ee) == [k |-> "fin", s |-> sg, m |-> mm, e |-> ee]
Zero(sg) == Fin(sg, 0, Qexp)
Null == [k |-> "null", s |-> 0, m |-> 0, e |-> 0]

IsNaN(x) == x.k = "nan"
IsInf(x) == x.k = "inf"
IsFin(x) == x.k = "fin"
IsZero(x) == x.k = "fin" /\ x.m = 0

\* n/d * 2^e (n >= 0, d > 0) rewritten, value unchanged, so that e >= Qexp
\* and the quotient n/d has Precision bits, or fewer when e = Qexp.  A value
\* below half of the smallest subnormal is returned as 0.
RECURSIVE Norm(_, _, _)
Norm(n, d, e) ==
  IF n = 0 THEN <<0, 1, Qexp>>
  ELSE IF e < Qexp
       THEN (IF n < d THEN <<0, 1, Qexp>> ELSE Norm(n, 2 * d, e + 1))
  ELSE IF (n \div TwoP) >= d THEN Norm(n, 2 * d, e + 1)
  ELSE IF e > Qexp /\ (n \div HalfP) < d THEN Norm(2 * n, d, e - 1)
  ELSE <<n, d, e>>

\* the number of significand q and exponent e, q <= 2^Precision
Pack(sg, q, e) ==
  IF q = TwoP
  THEN (IF e + 1 > Eexp THEN Inf(sg) ELSE Fin(sg, HalfP, e + 1))
  ELSE (IF e > Eexp THEN Inf(sg) ELSE Fin(sg, q, e))

\* (q + r/d) * 2^e rounded to nearest, ties to even
RoundQuotient(sg, q, r, d, e) ==
  Pack(sg, IF (2 * r > d) \/ (2 * r = d /\ q % 2 = 1) THEN q + 1 ELSE q, e)

RoundNormal(sg, t) == RoundQuotient(sg, t[1] \div t[2], t[1] % t[2], t[2], t[3])

\* round-to-nearest, ties-to-even, of the exact value (-1)^sg * n/d * 2^e
Round(sg, n, d, e) == RoundNormal(sg, Norm(n, d, e))

\* an integer literal of the program
Num(i) == IF i < 0 THEN Round(1, 0 - i, 1, 0) ELSE Round(0, i, 1, 0)

Neg(x) == IF IsNaN(x) THEN x ELSE [x EXCEPT !.s = 1 - x.s]

\* |x| < |y| for finite canonical x, y
MagLt(x, y) == x.e < y.e \/ (x.e = y.e /\ x.m < y.m)

\* x < y (false when either is NaN; -0 = +0)
Lt(x, y) ==
  IF IsNaN(x) \/ IsNaN(y) THEN FALSE
  ELSE IF IsInf(x) THEN x.s = 1 /\ ~(IsInf(y) /\ y.s = 1)
  ELSE IF IsInf(y) THEN y.s = 0
  ELSE IF IsZero(x) /\ IsZero(y) THEN FALSE
  ELSE IF x.s # y.s THEN x.s = 1
  ELSE IF x.s = 0 THEN MagLt(x, y) ELSE MagLt(y, x)

Gt(x, y) == Lt(y, x)
NumEq(x, y) == ~IsNaN(x) /\ ~IsNaN(y) /\ ~Lt(x, y) /\ ~Lt(y, x)
Le(x, y) == Lt(x, y) \/ NumEq(x, y)
Ge(x, y) == Le(y, x)

\* x * y
Mul(x, y) ==
  IF IsNaN(x) \/ IsNaN(y) THEN NaN
  ELSE IF IsInf(x) \/ IsInf(y)
       THEN (IF IsZero(x) \/ IsZero(y) THEN NaN ELSE Inf((x.s + y.s) % 2))
  ELSE Round((x.s + y.s) % 2, x.m * y.m, 1, x.e + y.e)

\* x / y
Div(x, y) ==
  IF IsNaN(x) \/ IsNaN(y) THEN NaN
  ELSE IF IsInf(x) THEN (IF IsInf(y) THEN NaN ELSE Inf((x.s + y.s) % 2))
  ELSE IF IsInf(y) THEN Zero((x.s + y.s) % 2)
  ELSE IF IsZero(y) THEN (IF IsZero(x) THEN NaN ELSE Inf((x.s + y.s) % 2))
  ELSE Round((x.s + y.s) % 2, x.m, y.m, x.e - y.e)

\* x + y for finite x, y with |x| >= |y|.  When y lies more than
\* Precision + 2 binary places below x it only decides the rounding
\* direction, and an eighth of x's last place stands for it.
AddOrdered(x, y) ==
  IF IsZero(y) THEN (IF IsZero(x) /\ x.s # y.s THEN Zero(0) ELSE x)
  ELSE IF x.e - y.e > Precision + 2
       THEN Round(x.s, IF x.s = y.s THEN 8 * x.m + 1 ELSE 8 * x.m - 1, 1, x.e - 3)
  ELSE IF x.s = y.s
       THEN Round(x.s, x.m * Pow(2, x.e - y.e) + y.m, 1, y.e)
  ELSE IF x.m * Pow(2, x.e - y.e) = y.m THEN Zero(0)
  ELSE Round(x.s, x.m * Pow(2, x.e - y.e) - y.m, 1, y.e)

\* x + y
Add(x, y) ==
  IF IsNaN(x) \/ IsNaN(y) THEN NaN
  ELSE IF IsInf(x) THEN (IF IsInf(y) /\ x.s # y.s THEN NaN ELSE x)
  ELSE IF IsInf(y) THEN y
  ELSE IF MagLt(x, y) THEN AddOrdered(y, x) ELSE AddOrdered(x, y)

\* x - y
Sub(x, y) == Add(x, Neg(y))

\* the largest r in lo..hi with r * r <= n
RECURSIVE ISqrt(_, _, _)
ISqrt(n, lo, hi) ==
  IF lo >= hi THEN lo
  ELSE LET mid == (lo + hi + 1) \div 2
       IN  IF mid * mid <= n THEN ISqrt(n, mid, hi) ELSE ISqrt(n, lo, mid - 1)

\* m * 2^e with e even and m scaled into [4^(Precision+1), 4^(Precision+2))
RECURSIVE SqrtScale(_, _)
SqrtScale(mm, ee) ==
  IF ee % 2 # 0 THEN SqrtScale(2 * mm, ee - 1)
  ELSE IF mm < Pow(4, Precision + 1) THEN SqrtScale(4 * mm, ee - 2)
  ELSE <<mm, ee>>

\* the square root of n * 2^e (e even) from r, the integer square root of n
SqrtRound(n, e, r) == Round(0, IF r * r = n THEN 2 * r ELSE 2 * r + 1, 1, (e \div 2) - 1)

SqrtScaled(t) == SqrtRound(t[1], t[2], ISqrt(t[1], 0, Pow(2, Precision + 2)))

\* Math.sqrt, correctly rounded
Sqrt(x) ==
  IF IsNaN(x) THEN NaN
  ELSE IF IsZero(x) THEN x
  ELSE IF x.s = 1 THEN NaN
  ELSE IF IsInf(x) THEN x
  ELSE SqrtScaled(SqrtScale(x.m, x.e))

\* Math.max of two numbers
Max(x, y) ==
  IF IsNaN(x) \/ IsNaN(y) THEN NaN
  ELSE IF Lt(x, y) THEN y
  ELSE IF Lt(y, x) THEN x
  ELSE IF x.s = 0 THEN x ELSE y

\* ----------------------------------------------------------------------
\* Strings and conversions
\* ----------------------------------------------------------------------

Digits == {"0", "1", "2", "3", "4", "5", "6", "7", "8", "9"}
WhiteSpace == {" "}

DigitVal(c) ==
  CASE c = "0" -> 0 [] c = "1" -> 1 [] c = "2" -> 2 [] c = "3" -> 3
    [] c = "4" -> 4 [] c = "5" -> 5 [] c = "6" -> 6 [] c = "7" -> 7
    [] c = "8" -> 8 [] c = "9" -> 9

\* first index >= i of str whose character is not in set (Len(str) + 1 if none)
RECURSIVE SkipWhile(_, _, _)
SkipWhile(str, i, set) ==
  IF i <= Len(str) /\ str[i] \in set THEN SkipWhile(str, i + 1, set) ELSE i

\* the value of the decimal digits str[i..j-1], and 0 for none
RECURSIVE DigitsVal(_, _, _)
DigitsVal(str, i, j) ==
  IF j <= i THEN 0 ELSE 10 * DigitsVal(str, i, j - 1) + DigitVal(str[j - 1])

\* does str carry the characters of lit from index i on
HasPrefixAt(str, i, lit) ==
  /\ i + Len(lit) - 1 <= Len(str)
  /\ \A j \in 1..Len(lit) : str[i + j - 1] = lit[j]

\* the number nearest to n * 10^x, n >= 0.  10^x > 2^(3x), so the value is
\* beyond the largest finite number when 3x > Emax; and n < 10^nd <
\* 2^(4 nd), so it is below half of the smallest subnormal when
\* 4 nd + 3x < Qexp - 1.  10^x = 5^x * 2^x keeps the integers small.
DecToNum(sg, n, nd, x) ==
  IF n = 0 THEN Zero(sg)
  ELSE IF 3 * x > Emax THEN Inf(sg)
  ELSE IF x >= 0 THEN Round(sg, n * Pow(5, x), 1, x)
  ELSE IF 4 * nd + 3 * x < Qexp - 1 THEN Zero(sg)
  ELSE Round(sg, n, Pow(5, 0 - x), x)

\* parseFloat, from the exponent part on: n is the value of the nd digits
\* read, nFrac of them after the point, and the exponent part, if any,
\* starts at kk with its digits in x0..x1-1
ParseExponent(str, sg, n, nd, nFrac, kk, x0, x1) ==
  IF ~(kk <= Len(str) /\ str[kk] \in {"e", "E"}) \/ x1 <= x0
  THEN DecToNum(sg, n, nd, 0 - nFrac)
  ELSE IF str[kk + 1] = "-"
       THEN DecToNum(sg, n, nd, 0 - DigitsVal(str, x0, x1) - nFrac)
       ELSE DecToNum(sg, n, nd, DigitsVal(str, x0, x1) - nFrac)

\* the first index of the digits of an exponent part that starts at kk
ExponentDigitsAt(str, kk) ==
  IF kk + 1 <= Len(str) /\ str[kk + 1] \in {"+", "-"} THEN kk + 2 ELSE kk + 1

\* parseFloat, once the digits are delimited: integer digits in i1..j-1,
\* fraction digits in f0..kk-1
ParseDigits(str, sg, i1, j, f0, kk) ==
  IF (j - i1) + (kk - f0) = 0 THEN NaN
  ELSE ParseExponent(str, sg,
         DigitsVal(str, i1, j) * Pow(10, kk - f0) + DigitsVal(str, f0, kk),
         (j - i1) + (kk - f0), kk - f0, kk,
         ExponentDigitsAt(str, kk),
         SkipWhile(str, ExponentDigitsAt(str, kk), Digits))

\* the first index of the fraction digits when the integer digits end at j
FractionAt(str, j) == IF j <= Len(str) /\ str[j] = "." THEN j + 1 ELSE j

\* parseFloat, after the sign: Infinity or a decimal literal from i1 on
ParseUnsigned(str, sg, i1, j) ==
  IF HasPrefixAt(str, i1, <<"I", "n", "f", "i", "n", "i", "t", "y">>) THEN Inf(sg)
  ELSE ParseDigits(str, sg, i1, j, FractionAt(str, j),
                   SkipWhile(str, FractionAt(str, j), Digits))

\* parseFloat, after the leading white space
ParseSigned(str, i0) ==
  IF i0 <= Len(str) /\ str[i0] \in {"+", "-"}
  THEN ParseUnsigned(str, IF str[i0] = "-" THEN 1 ELSE 0, i0 + 1,
                     SkipWhile(str, i0 + 1, Digits))
  ELSE ParseUnsigned(str, 0, i0, SkipWhile(str, i0, Digits))

\* parseFloat: skip leading white space, then the longest prefix that is a
\* StrDecimalLiteral: [+-] (Infinity | digits [. [digits]] | . digits)
\* [(e|E) [+-] digits]; NaN when there is no such prefix.
ParseFloat(str) == ParseSigned(str, SkipWhile(str, 1, WhiteSpace))

\* a decimal with f fraction digits: n units of 10^-f
Decimal(neg, n, f) ==
  [k |-> "decimal", neg |-> neg /\ n # 0, int |-> n \div Pow(10, f),
   frac |-> n % Pow(10, f), digits |-> f]

\* Number.prototype.toFixed(f): "NaN", "Infinity", or the decimal with f
\* fraction digits nearest to x, the larger one on a tie; a decimal is kept
\* as its sign, integer part and fraction part (in units of 10^-f)
ToFixed(x, f) ==
  IF IsNaN(x) THEN [k |-> "NaN", neg |-> FALSE, int |-> 0, frac |-> 0, digits |-> f]
  ELSE IF IsInf(x) THEN [k |-> "Infinity", neg |-> x.s = 1, int |-> 0, frac |-> 0, digits |-> f]
  ELSE IF x.e >= 0 THEN Decimal(x.s = 1, x.m * Pow(2, x.e) * Pow(10, f), f)
  ELSE Decimal(x.s = 1,
               (2 * x.m * Pow(10, f) + Pow(2, 0 - x.e)) \div (2 * Pow(2, 0 - x.e)), f)

\* the empty string of c?.toFixed(2) ?? ''
EmptyText == [k |-> "", neg |-> FALSE, int |-> 0, frac |-> 0, digits |-> 0]

\* string | null
Str(t) == [k |-> "string", v |-> t]
NullStr == [k |-> "null", v |-> ""]
\* the truth value of a string | null in a condition
Truthy(t) == t.k = "string" /\ t.v # ""

\* ----------------------------------------------------------------------
\* src/App.tsx
\* ----------------------------------------------------------------------

SVG_WIDTH == 400
SVG_HEIGHT == 400
PADDING == 40
MAX_DIM == SVG_WIDTH - PADDING * 2

ErrorMessage == "Please enter positive numbers for both sides."
PlaceholderMessage == "Enter valid side lengths to see the triangle."
NeutralMessage == "Calculation will appear here."

\* x ** 2
Square(x) == Mul(x, x)

\* the validation of line 126: isNaN(a) || isNaN(b) || a <= 0 || b <= 0
Invalid_strict(a, b) ==
  IsNaN(a) \/ IsNaN(b) \/ Lt(a, Num(0)) \/ Lt(b, Num(0))

Invalid(a, b) ==
  IsNaN(a) \/ IsNaN(b) \/ Le(a, Num(0)) \/ Le(b, Num(0))

\* the result of an invalid input
ErrorResult_keepLegs(a, b) ==
  [numA |-> a, numB |-> b, hypotenuse |-> Null, error |-> Str(ErrorMessage)]

ErrorResult_emptyError(a, b) ==
  [numA |-> Num(0), numB |-> Num(0), hypotenuse |-> Null, error |-> Str("")]

ErrorResult(a, b) ==
  [numA |-> Num(0), numB |-> Num(0), hypotenuse |-> Null,
   error |-> Str(ErrorMessage)]

\* Math.sqrt(a ** 2 + b ** 2)
Hypotenuse_noSqrt(a, b) == Add(Square(a), Square(b))

Hypotenuse(a, b) == Sqrt(Add(Square(a), Square(b)))

\* the callback of useMemo: the derived triangle of the two input strings
Derive(sA, sB) ==
  LET a == ParseFloat(sA)
      b == ParseFloat(sB)
  IN  IF Invalid(a, b)
      THEN ErrorResult(a, b)
      ELSE [numA |-> a, numB |-> b, hypotenuse |-> Hypotenuse(a, b),
            error |-> NullStr]

\* useMemo with the dependencies [sideA] only
UseMemo_onlySideA(deps, cached, sA, sB) ==
  IF deps[1] = sA THEN cached ELSE Derive(sA, sB)

\* useMemo(..., [sideA, sideB]): the cached value when the dependencies are
\* the ones of the previous render, the callback's result otherwise
UseMemo(deps, cached, sA, sB) ==
  IF deps = <<sA, sB>> THEN cached ELSE Derive(sA, sB)

GeometryElements == {"path", "RightAngleIcon", "label a", "label b", "label c"}

\* isValid = a > 0 && b > 0
IsValid(a, b) == Gt(a, Num(0)) /\ Gt(b, Num(0))

\* scale = isValid ? MAX_DIM / Math.max(a, b) : 0
Scale(a, b) == IF IsValid(a, b) THEN Div(Num(MAX_DIM), Max(a, b)) ELSE Num(0)

\* the right-angle corner
P1_bottomEdge == [x |-> Num(PADDING), y |-> Num(SVG_HEIGHT)]

P1 == [x |-> Num(PADDING), y |-> Num(SVG_HEIGHT - PADDING)]

\* the end of the horizontal side
P2(visualB) == [x |-> Add(Num(PADDING), visualB), y |-> Num(SVG_HEIGHT - PADDING)]

\* the end of the vertical side
P3(visualA) == [x |-> Num(PADDING), y |-> Sub(Num(SVG_HEIGHT - PADDING), visualA)]

\* {isValid && geometry} {!isValid && placeholder}
Elements_always(isValid) ==
  (IF isValid THEN GeometryElements ELSE {}) \cup {"placeholder"}

Elements(isValid) ==
  (IF isValid THEN GeometryElements ELSE {})
  \cup (IF ~isValid THEN {"placeholder"} ELSE {})

\* what TriangleVisualizer computes from the vertices and returns
Diagram(isValid, scale, visualA, visualB, p1, p2, p3, c) ==
  [isValid |-> isValid, scale |-> scale,
   visualA |-> visualA, visualB |-> visualB,
   p1 |-> p1, p2 |-> p2, p3 |-> p3,
   hypotenuseMidpoint |-> [x |-> Div(Add(p2.x, p3.x), Num(2)),
                           y |-> Div(Add(p2.y, p3.y), Num(2))],
   formattedC |-> IF c = Null THEN EmptyText ELSE ToFixed(c, 2),
   elements |-> Elements(isValid),
   message |-> IF ~isValid THEN PlaceholderMessage ELSE ""]

\* the visual sides and the vertices
Vertices(isValid, scale, visualA, visualB, c) ==
  Diagram(isValid, scale, visualA, visualB, P1, P2(visualB), P3(visualA), c)

\* visualB = b * scale (horizontal side), visualA = a * scale (vertical side)
Scaled(a, b, c, isValid, scale) ==
  Vertices(isValid, scale, Mul(a, scale), Mul(b, scale), c)

\* the component TriangleVisualizer: its geometry and the elements it
\* renders (the rotation angle of the label of c, Math.atan2, is left out)
TriangleVisualizer(a, b, c) == Scaled(a, b, c, IsValid(a, b), Scale(a, b))

\* the result panel: error ? error : hypotenuse !== null ? toFixed(4) : neutral
ResultPanel(d) ==
  IF Truthy(d.error)
  THEN [kind |-> "error", message |-> d.error.v, value |-> EmptyText]
  ELSE IF d.hypotenuse # Null
       THEN [kind |-> "hypotenuse", message |-> "", value |-> ToFixed(d.hypotenuse, 4)]
       ELSE [kind |-> "neutral", message |-> NeutralMessage, value |-> EmptyText]

\* what App returns: the two bound inputs, the result panel and the diagram
Render(sA, sB, d) ==
  [inputA |-> sA, inputB |-> sB,
   panel |-> ResultPanel(d),
   diagram |-> TriangleVisualizer(d.numA, d.numB, d.hypotenuse)]

\* the texts an edit event can carry (e.target.value)
Texts ==
  { <<>>, <<"0">>, <<"1">>, <<"3">>, <<"4">>, <<"5">>, <<"1", "2">>,
    <<"-", "2">>, <<"a", "b", "c">>, <<"1", "4", "7">>, <<".", "5">>,
    <<"3", "p", "x">>, <<"1", "e", "9", "9", "9">>,
    <<"I", "n", "f", "i", "n", "i", "t", "y">> }

\* sideA, sideB: the two useState strings; memoDeps, memo: the dependencies
\* and the value useMemo keeps from the previous render; view: what the
\* last render returned; lastEvent: the onChange event handled last
VARIABLE sideA
VARIABLE sideB
VARIABLE memoDeps
VARIABLE memo
VARIABLE view
VARIABLE lastEvent

vars == <<sideA, sideB, memoDeps, memo, view, lastEvent>>

\* useState('3'), useState('4') and the first render
Init ==
  /\ sideA = <<"3">>
  /\ sideB = <<"4">>
  /\ memoDeps = <<sideA, sideB>>
  /\ memo = Derive(sideA, sideB)
  /\ view = Render(sideA, sideB, memo)
  /\ lastEvent = [field |-> "none", text |-> <<>>]

\* the render that follows a state change
Rerender ==
  /\ memo' = UseMemo(memoDeps, memo, sideA', sideB')
  /\ memoDeps' = <<sideA', sideB'>>
  /\ view' = Render(sideA', sideB', memo')

\* an onChange that keeps only the texts that are a positive number
ChangeSideA_validating(t) ==
  /\ sideA' = (IF Invalid(ParseFloat(t), Num(1)) THEN sideA ELSE t)
  /\ sideB' = sideB
  /\ lastEvent' = [field |-> "sideA", text |-> t]
  /\ Rerender

\* onChange of the input sideA: setSideA(e.target.value)
ChangeSideA(t) ==
  /\ sideA' = t
  /\ sideB' = sideB
  /\ lastEvent' = [field |-> "sideA", text |-> t]
  /\ Rerender

\* onChange of the input sideB: setSideB(e.target.value)
ChangeSideB(t) ==
  /\ sideB' = t
  /\ sideA' = sideA
  /\ lastEvent' = [field |-> "sideB", text |-> t]
  /\ Rerender

Next ==
  \/ \E t \in Texts : ChangeSideA(t)
  \/ \E t \in Texts : ChangeSideB(t)

Spec == Init /\ [][Next]_vars

\* ----------------------------------------------------------------------
\* Properties
\* ----------------------------------------------------------------------

\* the numbers the current input strings parse to
a_now == ParseFloat(sideA)
b_now == ParseFloat(sideB)
diagram == view.diagram
Edited == lastEvent.field # "none"

\* m * 2^e with the factors 2 of m moved into the exponent
RECURSIVE Reduce(_, _)
Reduce(mm, ee) ==
  IF mm # 0 /\ mm % 2 = 0 THEN Reduce(mm \div 2, ee + 1) ELSE <<mm, ee>>

Min2(i, j) == IF i < j THEN i ELSE j

\* n1 * 2^e1 <= n2 * 2^e2, exactly
ScaledLe(n1, e1, n2, e2) ==
  LET lo == Min2(e1, e2)
  IN  n1 * Pow(2, e1 - lo) <= n2 * Pow(2, e2 - lo)

\* h^2 = a^2 + b^2 over the reals, for finite a, b, h
ExactPythagoras(a, b, h) ==
  /\ IsFin(a) /\ IsFin(b) /\ IsFin(h)
  /\ LET ra == Reduce(a.m, a.e)
         rb == Reduce(b.m, b.e)
         rh == Reduce(h.m, h.e)
         lo == Min2(ra[2], Min2(rb[2], rh[2]))
     IN  ra[1] * ra[1] * Pow(4, ra[2] - lo) + rb[1] * rb[1] * Pow(4, rb[2] - lo)
           = rh[1] * rh[1] * Pow(4, rh[2] - lo)

\* h is the number nearest to the real square root of the finite positive
\* number sum: sum lies between the squares of the two midpoints that
\* separate h from its neighbours
NearestSqrt(h, sum) ==
  /\ IsFin(h) /\ h.s = 0 /\ h.m > 0
  /\ LET narrow == h.m = HalfP /\ h.e > Qexp
         loM == IF narrow THEN 4 * h.m - 1 ELSE 2 * h.m - 1
         loE == IF narrow THEN h.e - 2 ELSE h.e - 1
         hiM == 2 * h.m + 1
         hiE == h.e - 1
     IN  /\ ScaledLe(loM * loM, 2 * loE, sum.m, sum.e)
         /\ ScaledLe(sum.m, sum.e, hiM * hiM, 2 * hiE)

FixedFive == [k |-> "decimal", neg |-> FALSE, int |-> 5, frac |-> 0, digits |-> 4]
FixedThirteen == [k |-> "decimal", neg |-> FALSE, int |-> 13, frac |-> 0, digits |-> 4]

\* C1: in every reachable state hypotenuse is non-null exactly when error
\* is null, and when error is non-null numA and numB are both 0.
C1_HypotenuseIffNoError ==
  /\ (memo.hypotenuse # Null) <=> (memo.error = NullStr)
  /\ memo.error # NullStr => memo.numA = Num(0) /\ memo.numB = Num(0)

C1_Witness ==
  /\ Edited
  /\ memo.error # NullStr
  /\ memo.hypotenuse = Null
  /\ Gt(a_now, Num(0))

\* C2: when either input parses to not-a-number or to a value <= 0, the
\* derivation is the error message, a null hypotenuse and numA = numB = 0,
\* whichever side is the invalid one.
C2_InvalidInputGivesError ==
  (IsNaN(a_now) \/ IsNaN(b_now) \/ ~Gt(a_now, Num(0)) \/ ~Gt(b_now, Num(0)))
    => /\ memo.error = Str(ErrorMessage)
       /\ memo.hypotenuse = Null
       /\ memo.numA = Num(0)
       /\ memo.numB = Num(0)

C2_Witness ==
  /\ Edited
  /\ Gt(a_now, Num(0))
  /\ IsZero(b_now)
  /\ memo.error = Str(ErrorMessage)

\* C3 as stated: for inputs that parse to positive a and b, error is null,
\* numA = a, numB = b, hypotenuse >= 0 and hypotenuse^2 = a^2 + b^2.
C3_Original ==
  (Gt(a_now, Num(0)) /\ Gt(b_now, Num(0)))
    => /\ memo.error = NullStr
       /\ memo.numA = a_now
       /\ memo.numB = b_now
       /\ Ge(memo.hypotenuse, Num(0))
       /\ ExactPythagoras(a_now, b_now, memo.hypotenuse)

\* C3 amended: for inputs that parse to positive a and b, error is null,
\* numA = a, numB = b, and hypotenuse is the number nearest to the square
\* root of the rounded sum of the rounded squares (Infinity when that sum
\* is Infinity), hence >= 0; ("3","4") gives exactly 5, shown as 5.0000,
\* and ("5","12") gives exactly 13.
C3_HypotenuseRounded ==
  (Gt(a_now, Num(0)) /\ Gt(b_now, Num(0)))
    => LET sum == Add(Mul(a_now, a_now), Mul(b_now, b_now))
           h == memo.hypotenuse
       IN  /\ memo.error = NullStr
           /\ memo.numA = a_now
           /\ memo.numB = b_now
           /\ h # Null
           /\ Ge(h, Num(0))
           /\ IF IsInf(sum) THEN h = Inf(0) ELSE NearestSqrt(h, sum)
           /\ (sideA = <<"3">> /\ sideB = <<"4">>)
                => h = Num(5) /\ view.panel.value = FixedFive
           /\ (sideA = <<"5">> /\ sideB = <<"1", "2">>)
                => h = Num(13) /\ view.panel.value = FixedThirteen

C3_Witness ==
  /\ Edited
  /\ sideA = <<"5">>
  /\ sideB = <<"1", "2">>
  /\ memo.hypotenuse = Num(13)

\* C4: whenever the legs are valid (a > 0 and b > 0), the longer visual
\* leg max(visualA, visualB) equals MAX_DIM exactly.
C4_LongerLegFillsSpan ==
  diagram.isValid => Max(diagram.visualA, diagram.visualB) = Num(MAX_DIM)

\* C5: the derived triangle and the diagram depend only on the current
\* pair of input strings: after any sequence of edits, with or without a
\* memoization hit, they are what the derivation and the render give for
\* the current sideA and sideB.
C5_FunctionOfCurrentInputs ==
  /\ memo = Derive(sideA, sideB)
  /\ view = Render(sideA, sideB, Derive(sideA, sideB))

C5_Witness ==
  /\ lastEvent.field = "sideB"
  /\ sideA # <<"3">>
  /\ sideB # <<"4">>
  /\ diagram.isValid

\* C6: p1 is at (PADDING, SVG_HEIGHT - PADDING) = (40, 360) whatever a and
\* b are, p2 has p1's y and p3 has p1's x.
C6_RightAngleFixed ==
  /\ diagram.p1.x = Num(40)
  /\ diagram.p1.y = Num(360)
  /\ diagram.p1 = [x |-> Num(PADDING), y |-> Num(SVG_HEIGHT - PADDING)]
  /\ diagram.p2.y = diagram.p1.y
  /\ diagram.p3.x = diagram.p1.x

C6_Witness ==
  /\ Edited
  /\ diagram.isValid
  /\ diagram.p2.x # Num(PADDING + MAX_DIM)
  /\ diagram.p3.y = Num(PADDING)

\* C7: the visualizer renders either the geometry (when a > 0 and b > 0)
\* or only the placeholder message; in App the geometry is rendered
\* exactly when error is null, and then c is not null and its label is
\* not the empty string.
C7_GeometryOrPlaceholder ==
  /\ diagram.elements \in {GeometryElements, {"placeholder"}}
  /\ (diagram.elements = GeometryElements)
       <=> (Gt(memo.numA, Num(0)) /\ Gt(memo.numB, Num(0)))
  /\ (diagram.elements = {"placeholder"})
       => diagram.message = PlaceholderMessage
  /\ (diagram.elements = GeometryElements) <=> (memo.error = NullStr)
  /\ (diagram.elements = GeometryElements)
       => memo.hypotenuse # Null /\ diagram.formattedC # EmptyText

C7_Witness ==
  /\ Edited
  /\ diagram.elements = GeometryElements
  /\ diagram.formattedC.k = "decimal"

\* what the input state holds after the last event, and what is shown
C8_StateInv ==
  /\ lastEvent.field = "none" => sideA = <<"3">> /\ sideB = <<"4">>
  /\ lastEvent.field = "sideA" => sideA = lastEvent.text
  /\ lastEvent.field = "sideB" => sideB = lastEvent.text
  /\ view.inputA = sideA
  /\ view.inputB = sideB

\* an event of one input leaves the other input's string alone
C8_Frame ==
  /\ lastEvent'.field = "sideA" => sideB' = sideB
  /\ lastEvent'.field = "sideB" => sideA' = sideA

\* C8: the inputs start as "3" and "4"; an edit of one side stores the
\* entered text, whatever it is, leaves the other side unchanged, and an
\* invalid derivation changes neither input.
C8_EditsOnly == []C8_StateInv /\ [][C8_Frame]_vars

C8_Witness ==
  /\ lastEvent = [field |-> "sideA", text |-> <<"a", "b", "c">>]
  /\ sideA = <<"a", "b", "c">>
  /\ sideB = <<"1", "2">>
  /\ memo.error # NullStr

InPaddedSquare(p) ==
  /\ Le(Num(PADDING), p.x) /\ Le(p.x, Num(SVG_WIDTH - PADDING))
  /\ Le(Num(PADDING), p.y) /\ Le(p.y, Num(SVG_HEIGHT - PADDING))

\* C10: whenever the triangle is drawn, p1, p2 and p3 lie in the padded
\* square and 0 < visualA <= MAX_DIM, 0 < visualB <= MAX_DIM.
C10_TriangleInsideCanvas ==
  diagram.isValid
    => /\ InPaddedSquare(diagram.p1)
       /\ InPaddedSquare(diagram.p2)
       /\ InPaddedSquare(diagram.p3)
       /\ Lt(Num(0), diagram.visualA) /\ Le(diagram.visualA, Num(MAX_DIM))
       /\ Lt(Num(0), diagram.visualB) /\ Le(diagram.visualB, Num(MAX_DIM))

====
